---- MODULE Spec2Model ----
(***************************************************************************)
(* A model of GeneticProgram.py: IndividualClass (ordering) and            *)
(* GeneticProgramClass (fit, _evaluate_population, _spea2,                 *)
(* _crowding_distance, _weighted_random_sample, _tournament_selection).    *)
(*                                                                         *)
(* Conventions                                                             *)
(*  - Python lists are sequences; Python's 0-based index k is k+1 here.    *)
(*  - A fenotype is opaque to the engine: it is held as a token, the       *)
(*    number of the Model call that returned it.  None is 0 for a          *)
(*    fenotype and <<>> for objective_values.                              *)
(*  - Objective values are integers drawn from a small set (finite floats).*)
(*    Values computed from them that may leave the finite floats are held  *)
(*    as extended floats [t, n]: a finite number, -inf, +inf or nan.       *)
(*  - A crowding distance is held in units of 1/len(objective_values):     *)
(*    the code divides each sum by that fixed positive number.             *)
(***************************************************************************)
EXTENDS Integers, Sequences, FiniteSets, TLC

(* ------------------------------ bounds -------------------------------- *)

MaxPopulationSize == 2
MaxGenerations == 3
MaxObjectives == 2
MaxObjectiveValue == 2
MaxTournamentSize == 2
(* populations and amounts drawn for the specifications of the ranking    *)
(* (SpecFitness) and of the selection methods (SpecSelection).            *)
MaxIndividuals == 3
MaxMeasured == 3
MaxFitnessObjectives == 3
MaxAmount == 2

(* the keyword defaults of __init__ *)
DefaultTournamentSize == 2
DefaultMutationRatio == <<2, 5>>

(* mutation_ratio is held as <<numerator, denominator>>: -0.5, 0, 0.4, 1  *)
(* and 1.5.  For the population sizes drawn the float product             *)
(* population_size * mutation_ratio has the ceiling of the exact one.     *)
MutationRatios == {<<-1, 2>>, <<0, 1>>, DefaultMutationRatio, <<1, 1>>, <<3, 2>>}

VARIABLES
    population_size, generations, objectives, multiobjective_fitness,
    sampling_method, mutation_ratio, tournament_size,
    population, ran_generations, darwin_champion,
    evaluate_calls, cycles, pc,
    arg_amount, selection, round_competitors, probabilities

config == <<population_size, generations, objectives, multiobjective_fitness,
            sampling_method, mutation_ratio, tournament_size>>
call == <<arg_amount, selection, round_competitors, probabilities>>
vars == <<config, population, ran_generations, darwin_champion,
          evaluate_calls, cycles, pc, call>>

(* --------------------------- extended floats -------------------------- *)

Num(n) == [t |-> "num", n |-> n]
NegInf == [t |-> "-inf", n |-> 0]
PosInf == [t |-> "+inf", n |-> 0]
NaN == [t |-> "nan", n |-> 0]

FloatNeg(a) ==
    IF a.t = "num" THEN Num(0 - a.n)
    ELSE IF a.t = "-inf" THEN PosInf
    ELSE IF a.t = "+inf" THEN NegInf
    ELSE NaN

FloatAdd(a, b) ==
    IF a.t = "nan" \/ b.t = "nan" THEN NaN
    ELSE IF a.t = "num" /\ b.t = "num" THEN Num(a.n + b.n)
    ELSE IF a.t = "num" THEN b
    ELSE IF b.t = "num" THEN a
    ELSE IF a.t = b.t THEN a
    ELSE NaN

FloatSub(a, b) == FloatAdd(a, FloatNeg(b))

FloatLt(a, b) ==
    /\ a.t # "nan"
    /\ b.t # "nan"
    /\ \/ a.t = "-inf" /\ b.t # "-inf"
       \/ a.t = "num" /\ b.t = "num" /\ a.n < b.n
       \/ a.t = "num" /\ b.t = "+inf"

FloatGt(a, b) == FloatLt(b, a)

FloatEq(a, b) == a.t # "nan" /\ b.t # "nan" /\ a = b

FloatLe(a, b) == FloatLt(a, b) \/ FloatEq(a, b)

(* ------------------------- IndividualClass ---------------------------- *)

(* evaluation: list = TRUE for a Python list, whose components are v;     *)
(* list = FALSE for a single float, held as the one component of v.       *)
IndividualClass(fenotype) ==
    [fenotype |-> fenotype,
     evaluation |-> [list |-> TRUE, v |-> <<>>],
     objective_values |-> <<>>]

RECURSIVE lt_from(_, _, _)
lt_from(self, other, eval_ind) ==
    IF eval_ind > Len(self.evaluation.v) THEN FALSE
    ELSE IF FloatGt(self.evaluation.v[eval_ind], other.evaluation.v[eval_ind]) THEN FALSE
    ELSE IF FloatLt(self.evaluation.v[eval_ind], other.evaluation.v[eval_ind]) THEN TRUE
    ELSE lt_from(self, other, eval_ind + 1)

__lt__(self, other) ==
    IF self.evaluation.list
    THEN lt_from(self, other, 1)
    ELSE FloatLt(self.evaluation.v[1], other.evaluation.v[1])

(* lines 54-61: != on floats is true of a nan *)
__eq__(self, other) ==
    IF self.evaluation.list
    THEN \A eval_ind \in 1..Len(self.evaluation.v) :
            FloatEq(self.evaluation.v[eval_ind], other.evaluation.v[eval_ind])
    ELSE FloatEq(self.evaluation.v[1], other.evaluation.v[1])

(* sorted(): Python's stable sort, which compares with < only.  Binary    *)
(* insertion puts x after every element that x is not less than.          *)
RECURSIVE insert_before_ties(_, _)
insert_before_ties(s, x) ==
    IF s = <<>> THEN <<x>>
    ELSE IF ~__lt__(Head(s), x) THEN <<x>> \o s
    ELSE <<Head(s)>> \o insert_before_ties(Tail(s), x)

RECURSIVE insert_sorted(_, _)
insert_sorted(s, x) ==
    IF s = <<>> THEN <<x>>
    ELSE IF __lt__(x, Head(s)) THEN <<x>> \o s
    ELSE <<Head(s)>> \o insert_sorted(Tail(s), x)

not_sorted(s) == s

RECURSIVE sorted(_)
sorted(s) ==
    IF s = <<>> THEN <<>>
    ELSE insert_sorted(sorted(SubSeq(s, 1, Len(s) - 1)), s[Len(s)])

(* ------------------------------ _spea2 -------------------------------- *)

RECURSIVE total_strengths(_, _)
total_strengths(strengths, dominators) ==
    IF dominators = {} THEN 0
    ELSE LET c == CHOOSE c \in dominators : TRUE
         IN  strengths[c] + total_strengths(strengths, dominators \ {c})

_spea2_of_the_dominated(objective_values) ==
    LET individuals == Len(objective_values[1])
        strengths ==
            [ind_idx \in 1..individuals |->
                Cardinality({c \in 1..individuals :
                    \A obj_idx \in 1..objectives :
                        ~(objective_values[obj_idx][ind_idx]
                            < objective_values[obj_idx][c])}) - 1]
    IN  [ind_idx \in 1..individuals |->
            total_strengths(strengths,
                {c \in 1..individuals :
                    \A obj_idx \in 1..objectives :
                        ~(objective_values[obj_idx][ind_idx]
                            <= objective_values[obj_idx][c])})]

_spea2_counting_itself(objective_values) ==
    LET individuals == Len(objective_values[1])
        strengths ==
            [ind_idx \in 1..individuals |->
                Cardinality({c \in 1..individuals :
                    \A obj_idx \in 1..objectives :
                        ~(objective_values[obj_idx][ind_idx]
                            < objective_values[obj_idx][c])})]
    IN  [ind_idx \in 1..individuals |->
            total_strengths(strengths,
                {c \in 1..individuals :
                    \A obj_idx \in 1..objectives :
                        ~(objective_values[obj_idx][ind_idx]
                            >= objective_values[obj_idx][c])})]

_spea2(objective_values) ==
    LET individuals == Len(objective_values[1])
        dominated(ind_idx, comparison_ind_idx) ==
            \A obj_idx \in 1..objectives :
                ~(objective_values[obj_idx][ind_idx]
                    < objective_values[obj_idx][comparison_ind_idx])
        strengths ==
            [ind_idx \in 1..individuals |->
                Cardinality({c \in 1..individuals : dominated(ind_idx, c)}) - 1]
        dominates_me(ind_idx, comparison_ind_idx) ==
            \A obj_idx \in 1..objectives :
                ~(objective_values[obj_idx][ind_idx]
                    >= objective_values[obj_idx][comparison_ind_idx])
    IN  [ind_idx \in 1..individuals |->
            total_strengths(strengths,
                {c \in 1..individuals : dominates_me(ind_idx, c)})]

(* ------------------------ _crowding_distance -------------------------- *)

(* An item (v_1, ..., v_k, index) is held as its index: item[objective_idx] *)
(* is objective_values[objective_idx][index].                              *)
RECURSIVE insert_by_key(_, _, _)
insert_by_key(s, x, key) ==
    IF s = <<>> THEN <<x>>
    ELSE IF key[x] < key[Head(s)] THEN <<x>> \o s
    ELSE <<Head(s)>> \o insert_by_key(Tail(s), x, key)

RECURSIVE sort_by_key(_, _)
sort_by_key(s, key) ==
    IF s = <<>> THEN <<>>
    ELSE insert_by_key(sort_by_key(SubSeq(s, 1, Len(s) - 1), key), s[Len(s)], key)

(* items after the sorts of objectives 1..objective_idx, each a stable    *)
(* sort of the order the previous one left.                               *)
RECURSIVE items_sorted(_, _)
items_sorted(objective_values, objective_idx) ==
    IF objective_idx = 0
    THEN [i \in 1..Len(objective_values[1]) |-> i]
    ELSE sort_by_key(items_sorted(objective_values, objective_idx - 1),
                     objective_values[objective_idx])

position_in(items, index) == CHOOSE p \in 1..Len(items) : items[p] = index

(* what the loop over objective_idx appends to distances[index]: -inf at  *)
(* either end (twice when both), the neighbours' difference inside.       *)
distance_in(objective_values, objective_idx, index) ==
    LET items == items_sorted(objective_values, objective_idx)
        p == position_in(items, index)
    IN  IF p = 1 \/ p = Len(items) THEN NegInf
        ELSE Num(objective_values[objective_idx][items[p + 1]]
                 - objective_values[objective_idx][items[p - 1]])

RECURSIVE sum_distances(_, _, _)
sum_distances(objective_values, objective_idx, index) ==
    IF objective_idx = 0 THEN Num(0)
    ELSE FloatAdd(sum_distances(objective_values, objective_idx - 1, index),
                  distance_in(objective_values, objective_idx, index))

(* max(): keeps the first item, replaced by each later one that is > it. *)
RECURSIVE float_max(_)
float_max(s) ==
    IF Len(s) = 1 THEN s[1]
    ELSE LET best == float_max(SubSeq(s, 1, Len(s) - 1))
         IN  IF FloatGt(s[Len(s)], best) THEN s[Len(s)] ELSE best

_crowding_distance(objective_values) ==
    LET crowding_distances ==
            [index \in 1..Len(objective_values[1]) |->
                sum_distances(objective_values, Len(objective_values), index)]
        max_cd == float_max(crowding_distances)
    IN  [index \in 1..Len(objective_values[1]) |->
            FloatSub(max_cd, crowding_distances[index])]

(* ------------------------ _evaluate_population ------------------------ *)

Values == 1..MaxObjectiveValue

unset_or_not(pop) == 1..Len(pop)

unset(pop) == {ind_idx \in 1..Len(pop) : pop[ind_idx].objective_values = <<>>}

(* lines 235-240: measured[ind_idx] is what the objective functions return *)
(* for an individual whose objective_values is None.                       *)
with_objective_values(pop, measured) ==
    [ind_idx \in 1..Len(pop) |->
        IF ind_idx \in unset(pop)
        THEN [pop[ind_idx] EXCEPT !.objective_values = measured[ind_idx]]
        ELSE pop[ind_idx]]

objective_matrix(pop) ==
    [obj_idx \in 1..objectives |->
        [ind_idx \in 1..Len(pop) |-> pop[ind_idx].objective_values[obj_idx]]]

(* lines 249-252 *)
with_single_objective(pop) ==
    [ind_idx \in 1..Len(pop) |->
        [pop[ind_idx] EXCEPT !.evaluation =
            [list |-> FALSE, v |-> <<Num(pop[ind_idx].objective_values[1])>>]]]

(* lines 256-260 *)
with_spea2(pop) ==
    LET evaluations == _spea2(objective_matrix(pop))
    IN  [ind_idx \in 1..Len(pop) |->
            [pop[ind_idx] EXCEPT !.evaluation =
                [list |-> TRUE, v |-> <<Num(evaluations[ind_idx])>>]]]

(* lines 277-279 *)
with_crowding(pop) ==
    LET crowding_distances == _crowding_distance(objective_matrix(pop))
    IN  [ind_idx \in 1..Len(pop) |->
            [pop[ind_idx] EXCEPT !.evaluation.v =
                Append(pop[ind_idx].evaluation.v, crowding_distances[ind_idx])]]

(* lines 249-279, for objectives = 1 or multiobjective_fitness = "SPEA2". *)
with_evaluation(pop) ==
    IF objectives = 1
    THEN with_single_objective(pop)
    ELSE with_crowding(with_spea2(pop))

(* line 277 reads objective_values, which only the SPEA2 branch binds.    *)
fitness_raises == objectives # 1 /\ multiobjective_fitness # "SPEA2"

_evaluate_population(pop, measured) ==
    IF fitness_raises
    THEN with_objective_values(pop, measured)
    ELSE with_evaluation(with_objective_values(pop, measured))

count_calls(calls, pop) ==
    [f \in 1..Len(calls) |->
        IF \E ind_idx \in unset(pop) : pop[ind_idx].fenotype = f
        THEN calls[f] + 1 ELSE calls[f]]

(* ----------------------------- selection ------------------------------ *)

individuals_of(pop) == {pop[i] : i \in 1..Len(pop)}

(* rd.choices(population, k = n) without weights: any n picks.            *)
choices(pop, k) == [1..k -> individuals_of(pop)]

tournament_last(competitors) == sorted(competitors)[Len(competitors)]

(* one round of _tournament_selection, lines 363-364 *)
tournament_winner(competitors) == sorted(competitors)[1]

tournament_rounds(parent_population) ==
    {tournament_winner(competitors) :
        competitors \in choices(parent_population, tournament_size)}

tournament_raises(amount) == amount > 0 /\ tournament_size < 1

_tournament_selection(parent_population, amount) ==
    [1..amount -> tournament_rounds(parent_population)]

(* lines 352-356: position i (0-based) gets (total_proportion - i) /       *)
(* total_proportion, held as its numerator over total_proportion.          *)
probabilities_equal(sorted_population) ==
    [position \in 1..Len(sorted_population) |-> Len(sorted_population)]

probabilities_of(sorted_population) ==
    LET total_proportion == Len(sorted_population)
    IN  [position \in 1..total_proportion |-> total_proportion - (position - 1)]

(* rd.choices with weights: any pick of positive weight. *)
weighted_choices(pop, weights, k) ==
    [1..k -> {pop[i] : i \in {j \in 1..Len(pop) : weights[j] > 0}}]

_weighted_random_sample(parent_population, amount) ==
    LET sorted_population == sorted(parent_population)
    IN  weighted_choices(sorted_population, probabilities_of(sorted_population), amount)

(* -------------------------------- fit --------------------------------- *)

(* math.ceil(population_size * mutation_ratio) *)
ceil_div(a, b) == 0 - ((0 - a) \div b)
mutations == ceil_div(population_size * mutation_ratio[1], mutation_ratio[2])
crossovers == population_size - mutations

new_individuals(first_fenotype, n) ==
    [i \in 1..n |-> IndividualClass(first_fenotype + i - 1)]

not_truncated(pop) == sorted(pop)

truncated(pop) == SubSeq(sorted(pop), 1, population_size)

select_parents(parent_population, amount) ==
    IF sampling_method = "tournament"
    THEN _tournament_selection(parent_population, amount)
    ELSE IF sampling_method = "weighted_random"
    THEN _weighted_random_sample(parent_population, amount)
    ELSE choices(parent_population, amount)

selection_raises ==
    /\ sampling_method = "tournament"
    /\ tournament_raises(crossovers) \/ tournament_raises(mutations)

Configurations ==
    {c \in [population_size : 1..MaxPopulationSize,
            generations : 0..MaxGenerations,
            objectives : 1..MaxObjectives,
            multiobjective_fitness : {"SPEA2", "NSGA2"},
            sampling_method : {"tournament", "weighted_random", "random"},
            mutation_ratio : MutationRatios,
            tournament_size : 0..MaxTournamentSize] :
        /\ c.sampling_method # "tournament" => c.tournament_size = DefaultTournamentSize
        /\ c.multiobjective_fitness = "NSGA2" => c.objectives > 1}

Init ==
    /\ \E c \in Configurations :
        /\ population_size = c.population_size
        /\ generations = c.generations
        /\ objectives = c.objectives
        /\ multiobjective_fitness = c.multiobjective_fitness
        /\ sampling_method = c.sampling_method
        /\ mutation_ratio = c.mutation_ratio
        /\ tournament_size = c.tournament_size
    /\ population = <<>>
    /\ ran_generations = 0
    /\ darwin_champion = 0
    /\ evaluate_calls = <<>>
    /\ cycles = 0
    /\ pc = "constructed"
    /\ arg_amount = 0
    /\ selection = <<>>
    /\ round_competitors = <<>>
    /\ probabilities = <<>>

(* line 150 leaves the counter as the previous run left it *)
ran_generations_kept == ran_generations

(* fit, line 150 *)
ran_generations_reset == 0

(* fit, lines 148-158: the counter reset, then the initial population,    *)
(* evaluated and sorted. Fenotypes are numbered from 1 in every run: line *)
(* 154 replaces the whole population.                                     *)
EvaluateInitial ==
    /\ ran_generations' = ran_generations_reset
    /\ LET created == new_individuals(1, population_size)
       IN  \E measured \in [unset(created) -> [1..objectives -> Values]] :
            /\ evaluate_calls' = count_calls([f \in 1..population_size |-> 0], created)
            /\ IF fitness_raises
               THEN /\ population' = _evaluate_population(created, measured)
                    /\ pc' = "raised"
               ELSE /\ population' = sorted(_evaluate_population(created, measured))
                    /\ pc' = "generation"
    /\ cycles' = 0
    /\ UNCHANGED <<config, darwin_champion, call>>

(* the first call of fit on a constructed engine *)
FitStart ==
    /\ pc = "constructed"
    /\ EvaluateInitial

(* fit, lines 174-197: one pass of the loop up to the grown population. *)
SelectAndReproduce ==
    /\ pc = "generation"
    /\ ran_generations + 1 < generations
    /\ ran_generations' = ran_generations + 1
    /\ IF selection_raises
       THEN /\ pc' = "raised"
            /\ UNCHANGED <<population, evaluate_calls>>
       ELSE /\ \E selected_first_parents \in select_parents(population, crossovers),
                  selected_second_parents \in select_parents(population, crossovers),
                  selected_mutations \in select_parents(population, mutations) :
                LET made == Len(evaluate_calls)
                    mutated == new_individuals(made + 1, Len(selected_mutations))
                    crossed == new_individuals(made + Len(mutated) + 1,
                                               Len(selected_first_parents))
                IN  /\ population' = population \o mutated \o crossed
                    /\ evaluate_calls' = evaluate_calls
                            \o [i \in 1..(Len(mutated) + Len(crossed)) |-> 0]
            /\ pc' = "evaluate"
    /\ UNCHANGED <<config, darwin_champion, cycles, call>>

(* fit, line 200 *)
EvaluateOffspring ==
    /\ pc = "evaluate"
    /\ \E measured \in [unset(population) -> [1..objectives -> Values]] :
        /\ population' = _evaluate_population(population, measured)
        /\ evaluate_calls' = count_calls(evaluate_calls, population)
    /\ pc' = "truncate"
    /\ UNCHANGED <<config, ran_generations, darwin_champion, cycles, call>>

(* fit, line 203 *)
RankAndTruncate ==
    /\ pc = "truncate"
    /\ population' = truncated(population)
    /\ cycles' = cycles + 1
    /\ pc' = "generation"
    /\ UNCHANGED <<config, ran_generations, darwin_champion, evaluate_calls, call>>

(* fit, lines 218-221 *)
Return ==
    /\ pc = "generation"
    /\ ~(ran_generations + 1 < generations)
    /\ darwin_champion' = population[1].fenotype
    /\ pc' = "returned"
    /\ UNCHANGED <<config, population, ran_generations, evaluate_calls, cycles, call>>

Next ==
    \/ FitStart
    \/ SelectAndReproduce
    \/ EvaluateOffspring
    \/ RankAndTruncate
    \/ Return

Spec == Init /\ [][Next]_vars

(* ------------------------ fit, called repeatedly ---------------------- *)

(* a later call of fit on the same engine, after a run that returned or   *)
(* that an exception ended                                                *)
FitAgain ==
    /\ pc \in {"returned", "raised"}
    /\ EvaluateInitial

NextCalls ==
    \/ FitAgain
    \/ Next

(* the steps of a call of fit between its start and its end *)
running == {"generation", "evaluate", "truncate"}

(* a step of a running call: fit is sequential code *)
RunStep ==
    \/ SelectAndReproduce
    \/ EvaluateOffspring
    \/ RankAndTruncate
    \/ Return

(* A call of fit runs to its end, and nothing makes the caller call it    *)
(* again: weak fairness of the steps of a running call. For the return it *)
(* is WF_vars(Return); for the steps of the loop it is WF_vars(RunStep)   *)
(* written out, with pc \in running for ENABLED <<RunStep>>_vars: a       *)
(* running call always has a next step, and each step moves pc.           *)
FairCalls ==
    /\ WF_vars(Return)
    /\ \/ []<>(pc \notin running)
       \/ []<><<RunStep>>_vars

(* the engine as constructed with the default mutation_ratio (line 76) *)
InitCalls ==
    /\ Init
    /\ mutation_ratio = DefaultMutationRatio

SpecCalls == InitCalls /\ [][NextCalls]_vars /\ FairCalls

(* ------------- _evaluate_population's ranking, on its own ------------- *)

(* obj1 = [1,2,3,4], obj2 = [4,3,2,1], one vector per individual *)
Scenario == <<(<<1, 4>>), (<<2, 3>>), (<<3, 2>>), (<<4, 1>>)>>

measured_populations(individuals, objs) ==
    [1..individuals -> [1..objs -> 1..MaxMeasured]]

(* a population as lines 235-240 leave it: objective_values set *)
measured_population(measured) ==
    [i \in 1..Len(measured) |->
        [IndividualClass(i) EXCEPT !.objective_values = measured[i]]]

InitFitness ==
    /\ \E objs \in 2..MaxFitnessObjectives :
        /\ objectives = objs
        /\ \E measured \in
                (UNION {measured_populations(n, objs) : n \in 1..MaxIndividuals})
                    \cup (IF objs = 2 THEN {Scenario} ELSE {}) :
            /\ population = measured_population(measured)
            /\ population_size = Len(measured)
            /\ evaluate_calls = [f \in 1..Len(measured) |-> 1]
    /\ generations = 1
    /\ multiobjective_fitness = "SPEA2"
    /\ sampling_method = "tournament"
    /\ mutation_ratio = DefaultMutationRatio
    /\ tournament_size = DefaultTournamentSize
    /\ ran_generations = 0
    /\ darwin_champion = 0
    /\ cycles = 0
    /\ pc = "measured"
    /\ arg_amount = 0
    /\ selection = <<>>
    /\ round_competitors = <<>>
    /\ probabilities = <<>>

(* _evaluate_population, lines 256-260 *)
AssignSpea2 ==
    /\ pc = "measured"
    /\ population' = with_spea2(population)
    /\ pc' = "ranked"
    /\ UNCHANGED <<config, ran_generations, darwin_champion, evaluate_calls, cycles, call>>

(* _evaluate_population, lines 277-279 *)
AppendCrowding ==
    /\ pc = "ranked"
    /\ population' = with_crowding(population)
    /\ pc' = "evaluated"
    /\ UNCHANGED <<config, ran_generations, darwin_champion, evaluate_calls, cycles, call>>

NextFitness ==
    \/ AssignSpea2
    \/ AppendCrowding

SpecFitness == InitFitness /\ [][NextFitness]_vars

(* ------------------ the selection methods, on their own --------------- *)

(* a population as fit holds it when it selects: evaluated and sorted *)
InitSelection ==
    /\ \E objs \in 1..MaxObjectives :
        /\ objectives = objs
        /\ \E measured \in
                UNION {measured_populations(n, objs) : n \in 1..MaxIndividuals} :
            /\ population = sorted(with_evaluation(measured_population(measured)))
            /\ population_size = Len(measured)
            /\ evaluate_calls = [f \in 1..Len(measured) |-> 1]
    /\ generations = 2
    /\ multiobjective_fitness = "SPEA2"
    /\ \E method \in {"tournament", "weighted_random"} :
        /\ sampling_method = method
        /\ pc = method
        /\ tournament_size \in
                IF method = "tournament" THEN 0..MaxTournamentSize
                ELSE {DefaultTournamentSize}
    /\ mutation_ratio = DefaultMutationRatio
    /\ ran_generations = 1
    /\ darwin_champion = 0
    /\ cycles = 0
    /\ arg_amount \in 0..MaxAmount
    /\ selection = <<>>
    /\ round_competitors = <<>>
    /\ probabilities = <<>>

(* _tournament_selection, lines 363-365: one turn of the loop *)
TournamentRound ==
    /\ pc = "tournament"
    /\ Len(selection) < arg_amount
    /\ IF tournament_size < 1
       THEN /\ pc' = "raised"
            /\ UNCHANGED <<selection, round_competitors>>
       ELSE /\ \E drawn \in choices(population, tournament_size) :
                /\ round_competitors' = drawn
                /\ selection' = Append(selection, tournament_winner(drawn))
            /\ pc' = pc
    /\ UNCHANGED <<config, population, ran_generations, darwin_champion,
                   evaluate_calls, cycles, arg_amount, probabilities>>

(* _tournament_selection, line 366 *)
TournamentReturn ==
    /\ pc = "tournament"
    /\ ~(Len(selection) < arg_amount)
    /\ pc' = "selected_tournament"
    /\ UNCHANGED <<config, population, ran_generations, darwin_champion,
                   evaluate_calls, cycles, call>>

(* _weighted_random_sample, lines 350-358, probabilities = None *)
WeightedRandomSample ==
    /\ pc = "weighted_random"
    /\ probabilities' = probabilities_of(sorted(population))
    /\ selection' \in _weighted_random_sample(population, arg_amount)
    /\ pc' = "selected_weighted"
    /\ UNCHANGED <<config, population, ran_generations, darwin_champion,
                   evaluate_calls, cycles, arg_amount, round_competitors>>

NextSelection ==
    \/ TournamentRound
    \/ TournamentReturn
    \/ WeightedRandomSample

SpecSelection == InitSelection /\ [][NextSelection]_vars

(* ------------------------------- claims ------------------------------- *)

(* C1: after the initial evaluation and at the end of every generation    *)
(* (after RANK_AND_TRUNCATE) the population holds exactly population_size *)
(* individuals, whatever the generations and the sampling method.         *)
C1_PopulationSize ==
    pc \in {"generation", "returned"} => Len(population) = population_size

C1_Witness ==
    /\ pc = "generation"
    /\ ran_generations = 2
    /\ population_size = 2
    /\ Len(population) = 2
    /\ \E i \in 1..Len(population) : population[i].fenotype > population_size

(* C2: when fit returns, the champion is the fenotype of an individual of *)
(* the final population that no individual of it is less than, in the     *)
(* lexicographic order of the evaluations (first differing component).    *)
C2_ChampionMinimal ==
    LET less(a, b) ==
            \E k \in 1..Len(a.evaluation.v) :
                /\ FloatLt(a.evaluation.v[k], b.evaluation.v[k])
                /\ \A j \in 1..(k - 1) :
                    /\ ~FloatLt(a.evaluation.v[j], b.evaluation.v[j])
                    /\ ~FloatLt(b.evaluation.v[j], a.evaluation.v[j])
    IN  pc = "returned" =>
            \E c \in 1..Len(population) :
                /\ population[c].fenotype = darwin_champion
                /\ \A i \in 1..Len(population) : ~less(population[i], population[c])

C2_Witness ==
    /\ pc = "returned"
    /\ ran_generations = 2
    /\ darwin_champion > population_size
    /\ \E i \in 1..Len(population) : __lt__(population[1], population[i])

(* C3: Model.evaluate and the objective functions are called at most once *)
(* per individual: a step calls them only for individuals whose           *)
(* objective_values are unset, and an individual whose objective_values   *)
(* are set keeps them for as long as it is in the population.             *)
C3_EvaluatedOnce ==
    [][ /\ \A f \in 1..Len(evaluate_calls') : evaluate_calls'[f] <= 1
        /\ \A i \in 1..Len(population) :
            population[i].objective_values # <<>> =>
                /\ evaluate_calls'[population[i].fenotype]
                        = evaluate_calls[population[i].fenotype]
                /\ \A j \in 1..Len(population') :
                    population'[j].fenotype = population[i].fenotype =>
                        population'[j].objective_values = population[i].objective_values
        /\ \A j \in 1..Len(population') :
            population'[j].objective_values # <<>> =>
                evaluate_calls'[population'[j].fenotype] = 1
      ]_vars

C3_Witness ==
    /\ pc = "truncate"
    /\ ran_generations = 2
    /\ \E i, j \in 1..Len(population) :
        /\ population[i].fenotype <= population_size
        /\ population[j].fenotype > population_size
        /\ population[j].fenotype <= 2 * population_size
        /\ evaluate_calls[population[i].fenotype] = 1
        /\ evaluate_calls[population[j].fenotype] = 1
    /\ \A f \in 1..Len(evaluate_calls) : evaluate_calls[f] = 1

(* C4: RANK_AND_TRUNCATE acts on a merged population whose evaluations    *)
(* are those computed over the whole of it, and keeps population_size of  *)
(* its individuals in ascending order: no discarded individual is less    *)
(* than a kept one, and individuals neither of which is less than the     *)
(* other keep their relative order, a kept one coming before a discarded. *)
C4_RankAndTruncate ==
    [][ pc = "truncate" =>
        LET at(f) == CHOOSE p \in 1..Len(population) : population[p].fenotype = f
            kept == {population'[k].fenotype : k \in 1..Len(population')}
            discarded == {p \in 1..Len(population) : population[p].fenotype \notin kept}
            tied(a, b) == ~__lt__(a, b) /\ ~__lt__(b, a)
        IN  /\ population = with_evaluation(population)
            /\ Len(population') = population_size
            /\ Cardinality(kept) = population_size
            /\ \A k \in 1..Len(population') :
                population'[k] = population[at(population'[k].fenotype)]
            /\ \A k \in 1..Len(population'), d \in discarded :
                /\ ~__lt__(population[d], population'[k])
                /\ tied(population[d], population'[k]) =>
                        at(population'[k].fenotype) < d
            /\ \A k, l \in 1..Len(population') :
                k < l =>
                    /\ ~__lt__(population'[l], population'[k])
                    /\ tied(population'[k], population'[l]) =>
                            at(population'[k].fenotype) < at(population'[l].fenotype)
      ]_vars

C4_Witness ==
    /\ pc = "generation"
    /\ ran_generations = 1
    /\ population_size = 2
    /\ objectives = 2
    /\ population[1].fenotype <= population_size
    /\ population[2].fenotype > population_size
    /\ ~__lt__(population[1], population[2])

(* C9: a configuration with mutation_ratio outside [0,1], tournament_size *)
(* < 1, or an invalid population_size or generations is rejected at       *)
(* construction: no run with it gets to evaluate or to return a champion. *)
C9_InvalidConfigurationRejected ==
    (\/ mutation_ratio[1] < 0
     \/ mutation_ratio[1] > mutation_ratio[2]
     \/ tournament_size < 1
     \/ population_size < 1
     \/ generations < 0)
        => /\ pc = "constructed"
           /\ population = <<>>
           /\ darwin_champion = 0

(* C5: an individual to which _spea2 gives raw fitness 0 is strictly      *)
(* dominated (greater in every objective) by no individual of the         *)
(* population, for 2 objectives and more.                                 *)
C5_RawZeroNotDominated ==
    pc \in {"ranked", "evaluated"} =>
        \A i \in 1..Len(population) :
            population[i].evaluation.v[1] = Num(0) =>
                ~\E j \in 1..Len(population) :
                    \A d \in 1..objectives :
                        population[j].objective_values[d]
                            > population[i].objective_values[d]

C5_Witness ==
    /\ pc = "ranked"
    /\ objectives = 3
    /\ \E i, j, k \in 1..Len(population) :
        /\ population[i].evaluation.v[1] = Num(0)
        /\ population[j].evaluation.v[1].n > 0
        /\ population[k].evaluation.v[1] = Num(0)
        /\ population[i].objective_values # population[k].objective_values
        /\ \A d \in 1..objectives :
            population[i].objective_values[d] >= population[k].objective_values[d]

(* C6: _spea2 gives each individual the sum, over the individuals that    *)
(* strictly dominate it, of their strengths, the strength of j being the  *)
(* number of individuals other than j that are <= j in every objective;   *)
(* on obj1 = [1,2,3,4], obj2 = [4,3,2,1] all four results are 0.          *)
C6_RawFitness ==
    LET n == Len(population)
        strictly(j, i) ==
            \A d \in 1..objectives :
                population[j].objective_values[d] > population[i].objective_values[d]
        below(k, j) ==
            \A d \in 1..objectives :
                population[k].objective_values[d] <= population[j].objective_values[d]
    IN  pc \in {"ranked", "evaluated"} =>
            /\ \A i \in 1..n :
                population[i].evaluation.v[1] =
                    Num(Cardinality({jk \in (1..n) \X (1..n) :
                            /\ strictly(jk[1], i)
                            /\ jk[2] # jk[1]
                            /\ below(jk[2], jk[1])}))
            /\ [i \in 1..n |-> population[i].objective_values] = Scenario =>
                    \A i \in 1..n : population[i].evaluation.v[1] = Num(0)

C6_Witness ==
    /\ pc = "ranked"
    /\ \E i, j, k \in 1..Len(population) :
        /\ j # k
        /\ \A d \in 1..objectives :
            /\ population[j].objective_values[d] > population[i].objective_values[d]
            /\ population[k].objective_values[d] > population[j].objective_values[d]
        /\ population[i].evaluation.v[1] = Num(3)
        /\ population[j].evaluation.v[1] = Num(2)
        /\ population[k].evaluation.v[1] = Num(0)

(* C7: _tournament_selection returns exactly amount individuals, each of  *)
(* the given population and each the winner of its round: one of the      *)
(* tournament_size competitors drawn from the population, than which no   *)
(* competitor of the round is less.                                       *)
C7_TournamentSelection ==
    pc \in {"tournament", "selected_tournament"} =>
        /\ \A r \in 1..Len(selection) : selection[r] \in individuals_of(population)
        /\ selection # <<>> =>
            /\ Len(round_competitors) = tournament_size
            /\ \E c \in 1..Len(round_competitors) :
                round_competitors[c] = selection[Len(selection)]
            /\ \A c \in 1..Len(round_competitors) :
                /\ round_competitors[c] \in individuals_of(population)
                /\ ~__lt__(round_competitors[c], selection[Len(selection)])
        /\ pc = "selected_tournament" => Len(selection) = arg_amount

C7_Witness ==
    /\ pc = "selected_tournament"
    /\ arg_amount = 2
    /\ tournament_size = 2
    /\ Len(selection) = 2
    /\ selection[1] # selection[2]
    /\ round_competitors[1] # selection[2]
    /\ __lt__(selection[2], round_competitors[1])

(* C8, as amended: _weighted_random_sample gives position i (0-based) of  *)
(* the sorted population the weight (N - i)/N, whatever the evaluations:  *)
(* over individuals of equal evaluation the sort keeps the given order    *)
(* and the weights are all equal only when N = 1.  The sample holds       *)
(* amount individuals of the population.                                  *)
C8_WeightsByPosition ==
    LET N == Len(population)
    IN  pc = "selected_weighted" =>
            /\ Len(probabilities) = N
            /\ \A position \in 1..N : probabilities[position] = N - (position - 1)
            /\ (\A i, j \in 1..N : __eq__(population[i], population[j])) =>
                    /\ sorted(population) = population
                    /\ (\A i, j \in 1..N : probabilities[i] = probabilities[j]) <=> N = 1
            /\ Len(selection) = arg_amount
            /\ \A r \in 1..Len(selection) : selection[r] \in individuals_of(population)

C8_Witness ==
    /\ pc = "selected_weighted"
    /\ Len(population) = 3
    /\ \A i, j \in 1..Len(population) : __eq__(population[i], population[j])
    /\ probabilities = <<3, 2, 1>>
    /\ arg_amount = 2
    /\ selection[1] # selection[2]

(* C8, as stated: over a population whose individuals all have equal      *)
(* evaluation values every individual gets the same selection weight.     *)
C8_EqualEvaluationsEqualWeights ==
    (/\ pc = "selected_weighted"
     /\ \A i, j \in 1..Len(population) : __eq__(population[i], population[j]))
        => \A i, j \in 1..Len(probabilities) : probabilities[i] = probabilities[j]

(* C10: with at least 3 individuals and 2 objectives, _crowding_distance  *)
(* gives every individual at either end of the sorted order of some       *)
(* objective the maximal inverted value of the population, and every      *)
(* individual inside in all of them max(raw) - raw, raw being the mean    *)
(* over the objectives of the difference of its two sorted neighbours'    *)
(* values (here its sum, in units of 1/objectives); on obj1 = [1,2,3,4],  *)
(* obj2 = [4,3,2,1] individuals 0 and 3 get the maximal value and 1 and 2 *)
(* get smaller ones.                                                      *)
C10_CrowdingValues ==
    LET n == Len(population)
        objective_values == objective_matrix(population)
        items(d) == items_sorted(objective_values, d)
        at_end(i) == \E d \in 1..objectives : items(d)[1] = i \/ items(d)[n] = i
        gap(i, d) ==
            LET p == CHOOSE p \in 1..n : items(d)[p] = i
            IN  objective_values[d][items(d)[p + 1]] - objective_values[d][items(d)[p - 1]]
        RECURSIVE raw(_, _)
        raw(i, d) == IF d = 0 THEN 0 ELSE raw(i, d - 1) + gap(i, d)
        inside == {i \in 1..n : ~at_end(i)}
        inverted(i) == population[i].evaluation.v[2]
    IN  (pc = "evaluated" /\ n >= 3) =>
            /\ \A i \in 1..n :
                at_end(i) => \A j \in 1..n : FloatLe(inverted(j), inverted(i))
            /\ \A i \in inside :
                \E m \in inside :
                    /\ \A k \in inside : raw(k, objectives) <= raw(m, objectives)
                    /\ inverted(i) = Num(raw(m, objectives) - raw(i, objectives))
            /\ [i \in 1..n |-> population[i].objective_values] = Scenario =>
                    /\ \A i \in {1, 4}, j \in {2, 3} : FloatLt(inverted(j), inverted(i))
                    /\ FloatEq(inverted(1), inverted(4))

(* max(0, generations - 1) *)
passes == IF generations >= 1 THEN generations - 1 ELSE 0

====
